---- MODULE Spec2Model ----
(***************************************************************************)
(* Resumable-upload server of kirkphillip605/FileUpload (server.js).       *)
(*                                                                         *)
(* The server is one Node.js process.  Every route handler runs its        *)
(* synchronous part as one step; the PATCH handler registers 'data',       *)
(* 'end' and 'error' callbacks on the request stream, each of which is a   *)
(* later step of its own, so several PATCH requests may be between their   *)
(* offset check and their 'end' callback at the same time.  Bytes handed   *)
(* to the fs.WriteStream reach the file in a still later step.             *)
(***************************************************************************)
EXTENDS Integers, Sequences, FiniteSets, TLC

(***************************************************************************)
(* Bounds of the model.                                                    *)
(***************************************************************************)
\* Stand-in for the 25 GB limit 26843545600 of server.js:116, scaled so that
\* lengths stay enumerable; the comparisons made with it are the code's.
MaxUploadLength == 2
\* Upload sessions created in one behaviour.
MaxSessions == 1
\* PATCH requests that may be in flight at once.
MaxRequests == 2
\* Bytes one PATCH body may carry.
MaxBody == 2
\* Date.now() returns one of 0..MaxClock (the wall clock is not monotonic).
MaxClock == 0
\* Simple uploads (POST /api/upload/simple) started in one behaviour.
MaxSimpleUploads == 1
\* Temp files created in one behaviour of a server that is restarted.
MaxTempFiles == 2
\* Upload sessions created in one behaviour of clients that share the server.
MaxPeerSessions == 2
\* Files the bundled client is given in one behaviour.
MaxFiles == 2
\* Bytes in one chunk of the bundled client (1 MB in the code).
ChunkSize == 1
\* Uploads the tus-node-server variant finishes in one behaviour.
MaxTusUploads == 2

VARIABLES
    alive,          \* the process is running (no uncaught exception yet)
    uuidCount,      \* UUIDs handed out by generateUUID so far
    uploads,        \* keys of the `uploads` Map (server.js:83)
    session,        \* the upload objects, by id; an object outlives its Map entry
    tempDir,        \* names (upload ids) present in the temp directory
    blob,           \* bytes of the file created for each upload id (its inode)
    uploadsDir,     \* the files that final paths lead to: path -> inode
    fileMetadata,   \* the `fileMetadata` Map (server.js:47)
    metadataFile,   \* contents of file-metadata.json
    req,            \* the PATCH requests in flight, by slot
    resp,           \* the response the last step sent, if it sent one
    origin,         \* history: the upload id each catalog record was made from
    form,           \* the simple upload that formidable is receiving, if any
    stale,          \* the temp files last modified more than 24 hours ago
    client          \* the bundled client: its entries and its running upload

\* What the server and its disk hold.
serverVars == <<alive, uuidCount, uploads, session, tempDir, blob, uploadsDir,
                fileMetadata, metadataFile, req, resp, origin, form, stale>>

vars == <<alive, uuidCount, uploads, session, tempDir, blob, uploadsDir,
          fileMetadata, metadataFile, req, resp, origin, form, stale, client>>

(***************************************************************************)
(* Header values are character strings, written as sequences.             *)
(***************************************************************************)
DigitChars == <<"0", "1", "2", "3", "4", "5", "6", "7", "8", "9">>

Digits == {DigitChars[i] : i \in 1..10}

IsDigit(c) == c \in Digits

DigitValues == [c \in Digits |-> (CHOOSE i \in 1..10 : DigitChars[i] = c) - 1]

DigitVal(c) == DigitValues[c]

\* The decimal numeral of a natural number below 100.
Numeral(n) == IF n < 10 THEN <<DigitChars[n + 1]>>
              ELSE <<DigitChars[(n \div 10) + 1], DigitChars[(n % 10) + 1]>>

\* String(undefined): what parseInt sees for a header that was not sent.
Undefined == <<"u", "n", "d", "e", "f", "i", "n", "e", "d">>

NaN == [nan |-> TRUE, val |-> 0]

Num(n) == [nan |-> FALSE, val |-> n]

RECURSIVE SkipWhitespace(_)
SkipWhitespace(s) == IF s # <<>> /\ Head(s) = " " THEN SkipWhitespace(Tail(s)) ELSE s

RECURSIVE ParseDigits(_, _)
ParseDigits(s, acc) == IF s = <<>> \/ ~IsDigit(Head(s)) THEN acc
                       ELSE ParseDigits(Tail(s), acc * 10 + DigitVal(Head(s)))

\* parseInt(string): leading blanks, an optional sign, the longest digit prefix.
ParseInt(s) ==
    LET t == SkipWhitespace(s)
        signed == t # <<>> /\ Head(t) \in {"-", "+"}
        u == IF signed THEN Tail(t) ELSE t
    IN  IF u = <<>> \/ ~IsDigit(Head(u)) THEN NaN
        ELSE IF signed /\ Head(t) = "-" THEN Num(0 - ParseDigits(u, 0))
        ELSE Num(ParseDigits(u, 0))

\* !x for a number x.
Falsy(x) == x.nan \/ x.val = 0

\* x > k that holds for no x.
GreaterThanNothing(x, k) == FALSE

\* x > k for a number x and an integer k (false for NaN).
GreaterThan(x, k) == ~x.nan /\ x.val > k

\* x !== k for a number x and an integer k (true for NaN).
StrictNotEqual(x, k) == x.nan \/ x.val # k

\* Buffer.from(v, 'base64').toString() on the values the clients below send.
Base64Decode(v) ==
    CASE v = "YS50eHQ=" -> "a.txt"
      [] v = "dGV4dC9wbGFpbg==" -> "text/plain"
      [] v = "Li4vLi4vLi4veA==" -> "../../../x"
      [] v = "Li4vLi4vLi4vdGVtcC8x" -> "../../../temp/1"
      [] OTHER -> ""

\* Upload-Metadata after split(',') and split(' '): a sequence of <<key, value>>.
MetadataOf(header) == [i \in DOMAIN header |->
                          [key |-> header[i][1], value |-> Base64Decode(header[i][2])]]

\* metadata.find(m => m.key === k): the first item with that key, if any.
FindKey(metadata, k) ==
    LET hits == {i \in DOMAIN metadata : metadata[i].key = k}
    IN  IF hits = {} THEN <<>>
        ELSE <<metadata[CHOOSE i \in hits : \A j \in hits : i <= j]>>

FilenameOf(header) ==
    LET item == FindKey(MetadataOf(header), "filename")
    IN  IF item = <<>> THEN "unknown" ELSE item[1].value

FiletypeOf(header) ==
    LET item == FindKey(MetadataOf(header), "filetype")
    IN  IF item = <<>> THEN "application/octet-stream" ELSE item[1].value

(***************************************************************************)
(* The inputs the clients send.                                            *)
(***************************************************************************)
LengthHeaders == {Undefined, <<"a">>, <<"-", "1">>}
                 \cup {Numeral(n) : n \in 0..(MaxUploadLength + 1)}

OffsetHeaders == {Undefined, <<"a">>}
                 \cup {Numeral(n) : n \in 0..MaxUploadLength}
                 \cup {Numeral(n) \o <<"a">> : n \in 0..MaxUploadLength}

MetadataHeaders == {<<>>,
                    <<<<"filename", "YS50eHQ=">>, <<"filetype", "dGV4dC9wbGFpbg==">>>>}

\* A client that names a file outside the uploads directory.
TraversalMetadataHeaders ==
    {<<<<"filename", "Li4vLi4vLi4veA==">>, <<"filetype", "dGV4dC9wbGFpbg==">>>>}

\* A client that names the temp file of the first session.
TempTargetMetadataHeaders ==
    {<<<<"filename", "Li4vLi4vLi4vdGVtcC8x">>, <<"filetype", "dGV4dC9wbGFpbg==">>>>}

\* The original filenames of the files sent to the simple upload.
OriginalFilenames == {"a.txt", "b.txt"}

\* Ids a client may name: the ones generateUUID can have issued.
Ids == 1..(2 * MaxSessions)

\* The same where two sessions are created.
PeerIds == 1..(2 * MaxPeerSessions)

\* The same where simple uploads draw ids too.
FileIds == 1..(2 * MaxSessions + MaxSimpleUploads)

Slots == 1..MaxRequests

\* The values Date.now() may return.
Clock == 0..MaxClock

(***************************************************************************)
(* Files.                                                                  *)
(***************************************************************************)
\* Every client uploads from the same file: its byte at position pos (from 0).
\* The server never reads a byte, so their values decide nothing; 0 is a hole.
FileByte(pos) == pos + 1

\* The file's bytes from position pos, n of them: the body a client sends there.
FileBytes(pos, n) == [i \in 1..n |-> FileByte(pos + i - 1)]

RECURSIVE Repeat(_, _)
Repeat(b, n) == IF n <= 0 THEN <<>> ELSE <<b>> \o Repeat(b, n - 1)

\* pwrite of `bytes` at position pos of a file holding `old`.
WriteAt(old, pos, bytes) ==
    LET padded == IF Len(old) < pos THEN old \o Repeat(0, pos - Len(old)) ELSE old
        end == pos + Len(bytes)
        n == IF Len(padded) > end THEN Len(padded) ELSE end
    IN  [i \in 1..n |-> IF i > pos /\ i <= end THEN bytes[i - pos] ELSE padded[i]]

\* A path is the sequence of its segments below the server's directory.  A
\* segment is its text, and before it the clock value of `${Date.now()}-`
\* where the segment was built with one.
Segment(name) == [stamp |-> <<>>, name |-> name]

Stamped(t, name) == [stamp |-> <<t>>, name |-> name]

\* name.split('/') for the names the clients send.
SplitPath(name) ==
    CASE name = "../../../x" -> <<"..", "..", "..", "x">>
      [] name = "../../../temp/1" -> <<"..", "..", "..", "temp", "1">>
      [] OTHER -> <<name>>

\* The segments of `${t}-${name}`.
StampedName(t, name) ==
    LET parts == SplitPath(name)
    IN  <<Stamped(t, Head(parts))>> \o [i \in 1..(Len(parts) - 1) |-> Segment(parts[i + 1])]

\* path.normalize: a '..' segment takes back the segment before it.
RECURSIVE Normalize(_, _)
Normalize(done, rest) ==
    IF rest = <<>> THEN done
    ELSE IF Head(rest) = Segment("..")
    THEN Normalize(IF done = <<>> THEN <<>> ELSE SubSeq(done, 1, Len(done) - 1), Tail(rest))
    ELSE Normalize(Append(done, Head(rest)), Tail(rest))

\* path.join(dir, name)
PathJoin(dir, name) == Normalize(<<>>, dir \o name)

\* path.join(__dirname, 'uploads')
UploadsPath == <<Segment("uploads")>>

\* path.join(uploadsDir, `${Date.now()}-${upload.filename}`)
FinalPath(t, filename) == PathJoin(UploadsPath, StampedName(t, filename))

\* path.basename(finalPath)
Basename(p) == p[Len(p)]

generateUUID == uuidCount + 1

\* The n-th id generateUUID issues, as it is written in a path (n below 10).
IdName(id) == DigitChars[id + 1]

\* path.join(tempDir, uploadId)
TempPath(uploadId) == <<Segment("temp"), Segment(IdName(uploadId))>>

\* The file at the temp path of an upload: the one written at its creation,
\* unless a rename has put another file at that path.
TempInode(uploadId) ==
    IF TempPath(uploadId) \in DOMAIN uploadsDir THEN uploadsDir[TempPath(uploadId)]
    ELSE uploadId

\* The uploads whose temp path is the path p.
TempTargets(p) == {v \in 1..uuidCount : TempPath(v) = p}

Idle == [phase |-> "idle", id |-> 0, inode |-> 0, start |-> 0, bytesWritten |-> 0,
         flushed |-> 0]

NoHeaders == <<>>

\* A response: its status, and its headers or the fields of its body.
Response(status, headers) == [status |-> status, headers |-> headers]

\* The step sent no response.
NoResponse == Response(0, NoHeaders)

\* res.status(status).json({ error })
ErrorResponse(status, error) == Response(status, [Error |-> error])

\* No simple upload is being received; `started` counts the ones begun so far.
NoForm(started) == [phase |-> "idle", filepath |-> <<>>, originalFilename |-> "",
                    inode |-> 0, started |-> started]

\* The page of the bundled client before a file is chosen; pc is the place
\* the running uploadFile has reached.
NoClient == [entries |-> <<>>, pc |-> "idle", location |-> 0, offset |-> 0]

Init ==
    /\ alive = TRUE
    /\ uuidCount = 0
    /\ uploads = {}
    /\ session = <<>>
    /\ tempDir = {}
    /\ blob = <<>>
    /\ uploadsDir = <<>>
    /\ fileMetadata = <<>>
    /\ metadataFile = <<>>
    /\ req = [r \in Slots |-> Idle]
    /\ resp = NoResponse
    /\ origin = <<>>
    /\ form = NoForm(0)
    /\ stale = {}
    /\ client = NoClient

(***************************************************************************)
(* POST /api/upload: create an upload session.                             *)
(***************************************************************************)
\* The object stored by uploads.set(uploadId, {...}).
NewUpload(uploadId, uploadLength, header, now) ==
    [id |-> uploadId,
     length |-> uploadLength,
     offset |-> 0,
     filename |-> FilenameOf(header),
     filetype |-> FiletypeOf(header),
     tempPath |-> uploadId,
     created |-> now]

\* A 413 test that refuses the maximum itself.
TooLargeAtLimit(uploadLength) ==
    Falsy(uploadLength) \/ GreaterThan(uploadLength, MaxUploadLength - 1)

\* The 413 test of the handler.
TooLarge(uploadLength) == Falsy(uploadLength) \/ GreaterThan(uploadLength, MaxUploadLength)

\* writeFails: fs.writeFileSync of the empty temp file throws.  The code sets
\* no limit to the sessions; quota bounds the sessions of one behaviour.
CreateUpload(lengthHeader, metadataHeader, now, writeFails, quota) ==
    LET uploadLength == ParseInt(lengthHeader)
        uploadId == generateUUID
    IN  /\ alive
        /\ IF TooLarge(uploadLength)
           THEN /\ resp' = Response(413, NoHeaders)
                /\ UNCHANGED <<uuidCount, uploads, session, tempDir, blob>>
           ELSE IF writeFails
           THEN /\ resp' = Response(500, NoHeaders)
                /\ UNCHANGED <<uuidCount, uploads, session, tempDir, blob>>
           ELSE /\ Cardinality(DOMAIN session) < quota
                /\ uuidCount' = uploadId
                /\ tempDir' = tempDir \cup {uploadId}
                /\ blob' = (TempInode(uploadId) :> <<>>) @@ blob
                /\ session' = (uploadId :> NewUpload(uploadId, uploadLength.val,
                                                     metadataHeader, now)) @@ session
                /\ uploads' = uploads \cup {uploadId}
                /\ resp' = Response(201, [Location |-> uploadId])
        /\ UNCHANGED <<alive, uploadsDir, fileMetadata, metadataFile, req, origin, form, stale>>

CreateSession(lengthHeader, metadataHeader, now, writeFails) ==
    CreateUpload(lengthHeader, metadataHeader, now, writeFails, MaxSessions)

(***************************************************************************)
(* HEAD /api/upload/:id: the current offset.                               *)
(***************************************************************************)
\* A HEAD that answers the size of the temp file for the offset.
HeadOfTempFile(uploadId) ==
    IF uploadId \notin uploads
    THEN Response(404, NoHeaders)
    ELSE Response(200,
                  [UploadOffset |-> Len(blob[uploadId]),
                   UploadLength |-> session[uploadId].length])

\* What HEAD answers for an id in the current state.
HeadResponse(uploadId) ==
    IF uploadId \notin uploads
    THEN Response(404, NoHeaders)
    ELSE Response(200,
                  [UploadOffset |-> session[uploadId].offset,
                   UploadLength |-> session[uploadId].length])

HeadOffset(uploadId) ==
    /\ alive
    /\ resp' = HeadResponse(uploadId)
    /\ UNCHANGED <<alive, uuidCount, uploads, session, tempDir, blob, uploadsDir,
                   fileMetadata, metadataFile, req, origin, form, stale>>

(***************************************************************************)
(* POST /api/upload/simple: formidable stores the file part in the uploads *)
(* directory while the request arrives, then calls back.                   *)
(***************************************************************************)
\* The inode of the n-th file formidable creates (upload ids name the others).
FormInode(n) == 0 - n

\* The body of every simple upload: the first byte of the clients' file.
FormBody == FileBytes(0, 1)

\* The `filename` option: path.join(uploadDir, `${Date.now()}-${originalFilename}`)
FormPath(now, originalFilename) == PathJoin(UploadsPath, StampedName(now, originalFilename))

\* The record built at server.js:296-304.
SimpleMetadataEntry(fileId, file, now) ==
    [id |-> fileId,
     originalName |-> file.originalFilename,
     fileName |-> Basename(file.filepath),
     size |-> Len(FormBody),
     mimetype |-> "text/plain",
     uploadDate |-> now,
     filePath |-> file.filepath]

\* The request arrives.  Without a file part the form is parsed at once and the
\* callback answers 400; with one, formidable opens the file for writing: a
\* file already at that path is truncated, otherwise one is created.
SimpleUploadStart(originalFilename, now, hasFile) ==
    LET filepath == FormPath(now, originalFilename)
        n == form.started + 1
        exists == filepath \in DOMAIN uploadsDir
        inode == IF exists THEN uploadsDir[filepath] ELSE FormInode(n)
    IN  /\ alive
        /\ form.phase = "idle"
        /\ IF ~hasFile
           THEN /\ resp' = ErrorResponse(400, "No file uploaded")
                /\ UNCHANGED <<blob, uploadsDir, form>>
           ELSE /\ form.started < MaxSimpleUploads
                /\ blob' = IF exists THEN [blob EXCEPT ![inode] = <<>>]
                           ELSE (inode :> <<>>) @@ blob
                /\ uploadsDir' = IF exists THEN uploadsDir
                                 ELSE (filepath :> inode) @@ uploadsDir
                /\ form' = [phase |-> "receiving", filepath |-> filepath,
                            originalFilename |-> originalFilename,
                            inode |-> inode, started |-> n]
                /\ resp' = NoResponse
        /\ UNCHANGED <<alive, uuidCount, uploads, session, tempDir, fileMetadata,
                       metadataFile, req, origin, stale>>

\* A save that writes the newest record alone.
SaveNewestOnly(metadataMap, saveFails) ==
    [f \in {x \in DOMAIN metadataMap : \A y \in DOMAIN metadataMap : x >= y}
        |-> metadataMap[f]]

\* saveMetadata: the whole Map is written; a failed write is logged and dropped.
SaveMetadata(metadataMap, saveFails) == IF saveFails THEN metadataFile ELSE metadataMap

\* The callback of form.parse.  With err the request failed: formidable has
\* removed the file it was writing, and the answer is 500.  Otherwise the body
\* is in the file, and the record is made and saved.
SimpleUploadParsed(err, now, saveFails) ==
    LET fileId == generateUUID
    IN  /\ alive
        /\ form.phase = "receiving"
        /\ form' = NoForm(form.started)
        /\ IF err
           THEN /\ uploadsDir' = [q \in DOMAIN uploadsDir \ {form.filepath} |-> uploadsDir[q]]
                /\ resp' = ErrorResponse(500, "Upload failed")
                /\ UNCHANGED <<uuidCount, blob, fileMetadata, metadataFile>>
           ELSE /\ blob' = [blob EXCEPT ![form.inode] = FormBody]
                /\ uuidCount' = fileId
                /\ fileMetadata' = (fileId :> SimpleMetadataEntry(fileId, form, now))
                                       @@ fileMetadata
                /\ metadataFile' = SaveMetadata(fileMetadata', saveFails)
                /\ resp' = Response(200, [Success |-> TRUE, FileId |-> fileId])
                /\ UNCHANGED uploadsDir
        /\ UNCHANGED <<alive, uploads, session, tempDir, req, origin, stale>>

(***************************************************************************)
(* GET /api/files, GET /api/download/:fileId, DELETE /api/files/:fileId.   *)
(***************************************************************************)
\* One element of the list.
ListedFile(file) ==
    [id |-> file.id, name |-> file.originalName, size |-> file.size,
     uploadDate |-> file.uploadDate, type |-> file.mimetype, path |-> file.id]

\* What GET /api/files answers in the current state.
ListResponse ==
    Response(200, [Files |-> {ListedFile(fileMetadata[f]) : f \in DOMAIN fileMetadata}])

ListFiles ==
    /\ alive
    /\ resp' = ListResponse
    /\ UNCHANGED <<alive, uuidCount, uploads, session, tempDir, blob, uploadsDir,
                   fileMetadata, metadataFile, req, origin, form, stale>>

\* fs.existsSync(filePath)
ExistsSync(filePath) == filePath \in DOMAIN uploadsDir

\* A download that does not look for the file and sends what it finds.
DownloadUnchecked(fileId) ==
    IF fileId \notin DOMAIN fileMetadata
    THEN ErrorResponse(404, "File not found")
    ELSE IF fileMetadata[fileId].filePath \notin DOMAIN uploadsDir
    THEN Response(200, [ContentLength |-> 0, Body |-> <<>>])
    ELSE Response(200, [ContentLength |-> Len(blob[uploadsDir[fileMetadata[fileId].filePath]]),
                        Body |-> blob[uploadsDir[fileMetadata[fileId].filePath]]])

\* What GET /api/download/:fileId answers in the current state.
DownloadResponse(fileId) ==
    IF fileId \notin DOMAIN fileMetadata
    THEN ErrorResponse(404, "File not found")
    ELSE IF ~ExistsSync(fileMetadata[fileId].filePath)
    THEN ErrorResponse(404, "File not found on disk")
    ELSE Response(200, [ContentLength |-> Len(blob[uploadsDir[fileMetadata[fileId].filePath]]),
                        Body |-> blob[uploadsDir[fileMetadata[fileId].filePath]]])

Download(fileId) ==
    /\ alive
    /\ resp' = DownloadResponse(fileId)
    /\ UNCHANGED <<alive, uuidCount, uploads, session, tempDir, blob, uploadsDir,
                   fileMetadata, metadataFile, req, origin, form, stale>>

\* A delete that goes on although the file could not be removed.
UnlinkFailureIgnored(filePath, unlinkFails) == FALSE

\* fs.unlinkSync(filePath) is called and throws.
UnlinkThrows(filePath, unlinkFails) == ExistsSync(filePath) /\ unlinkFails

\* A delete that writes the records it keeps anew, without their sizes.
WithoutEntryRewritten(metadataMap, fileId) ==
    [f \in DOMAIN metadataMap \ {fileId} |-> [metadataMap[f] EXCEPT !.size = 0]]

\* The Map without the entry of fileId.
WithoutEntry(metadataMap, fileId) ==
    [f \in DOMAIN metadataMap \ {fileId} |-> metadataMap[f]]

\* A delete that answers success for an id that is not in the catalog.
DeleteIdempotent(fileId, unlinkFails, saveFails) ==
    /\ alive
    /\ IF fileId \notin DOMAIN fileMetadata
       THEN /\ resp' = Response(200, [Success |-> TRUE])
            /\ UNCHANGED <<uploadsDir, tempDir, stale, fileMetadata, metadataFile>>
       ELSE IF UnlinkThrows(fileMetadata[fileId].filePath, unlinkFails)
       THEN /\ resp' = ErrorResponse(500, "Delete failed")
            /\ UNCHANGED <<uploadsDir, tempDir, stale, fileMetadata, metadataFile>>
       ELSE /\ uploadsDir' = [q \in DOMAIN uploadsDir \ {fileMetadata[fileId].filePath}
                                 |-> uploadsDir[q]]
            /\ tempDir' = IF ExistsSync(fileMetadata[fileId].filePath)
                          THEN tempDir \ TempTargets(fileMetadata[fileId].filePath)
                          ELSE tempDir
            /\ stale' = stale \cap tempDir'
            /\ fileMetadata' = WithoutEntry(fileMetadata, fileId)
            /\ metadataFile' = SaveMetadata(fileMetadata', saveFails)
            /\ resp' = Response(200, [Success |-> TRUE])
    /\ UNCHANGED <<alive, uuidCount, uploads, session, blob, req, origin, form>>

DeleteFile(fileId, unlinkFails, saveFails) ==
    /\ alive
    /\ IF fileId \notin DOMAIN fileMetadata
       THEN /\ resp' = ErrorResponse(404, "File not found")
            /\ UNCHANGED <<uploadsDir, tempDir, stale, fileMetadata, metadataFile>>
       ELSE IF UnlinkThrows(fileMetadata[fileId].filePath, unlinkFails)
       THEN /\ resp' = ErrorResponse(500, "Delete failed")
            /\ UNCHANGED <<uploadsDir, tempDir, stale, fileMetadata, metadataFile>>
       ELSE /\ uploadsDir' = [q \in DOMAIN uploadsDir \ {fileMetadata[fileId].filePath}
                                 |-> uploadsDir[q]]
            /\ tempDir' = IF ExistsSync(fileMetadata[fileId].filePath)
                          THEN tempDir \ TempTargets(fileMetadata[fileId].filePath)
                          ELSE tempDir
            /\ stale' = stale \cap tempDir'
            /\ fileMetadata' = WithoutEntry(fileMetadata, fileId)
            /\ metadataFile' = SaveMetadata(fileMetadata', saveFails)
            /\ resp' = Response(200, [Success |-> TRUE])
    /\ UNCHANGED <<alive, uuidCount, uploads, session, blob, req, origin, form>>

(***************************************************************************)
(* Time passes, and the process is started (again): the module is          *)
(* evaluated, which loads the catalog, makes an empty `uploads` Map and    *)
(* calls cleanupTempFiles once.  Nothing else calls cleanupTempFiles.      *)
(***************************************************************************)
\* The age of a temp file passes 24 hours.
AgeOut(file) ==
    /\ file \in tempDir
    /\ file \notin stale
    /\ stale' = stale \cup {file}
    /\ resp' = NoResponse
    /\ UNCHANGED <<alive, uuidCount, uploads, session, tempDir, blob, uploadsDir,
                   fileMetadata, metadataFile, req, origin, form>>

\* loadMetadata: the entries of the document, set one by one in a new Map; an
\* empty Map where there is no document.
LoadMetadata(document) == [key \in DOMAIN document |-> document[key]]

\* A start that finds the sessions of the process before it.
SessionsKept == uploads

\* `const uploads = new Map()`: the sessions a starting process knows.
SessionsAtStartup == {}

\* The orders in which fs.readdirSync may list the files.
Listings(files) ==
    {l \in [1..Cardinality(files) -> files] : \A i, j \in 1..Cardinality(files) :
                                                  l[i] = l[j] => i = j}

\* ageHours > 24
OlderThanADay(file) == file \in stale

\* The files the forEach of cleanupTempFiles unlinks: the old ones, as far as
\* the first file on which statSync or unlinkSync throws; the throw leaves the
\* forEach and is caught outside it.
RECURSIVE Unlinked(_, _)
Unlinked(tempFiles, failing) ==
    IF tempFiles = <<>> \/ Head(tempFiles) \in failing THEN {}
    ELSE (IF OlderThanADay(Head(tempFiles)) THEN {Head(tempFiles)} ELSE {})
             \cup Unlinked(Tail(tempFiles), failing)

\* cleanupTempFiles, with the listing readdirSync returns and the files on
\* which a file system call throws.
CleanupTempFiles(tempFiles, failing) == tempDir \ Unlinked(tempFiles, failing)

\* The process starts, after the one before it ended, if there was one.  What
\* was in memory is gone: the sessions, the requests in flight and what their
\* streams had not written.
Restart(tempFiles, failing) ==
    /\ alive' = TRUE
    /\ uploads' = SessionsAtStartup
    /\ session' = [u \in SessionsAtStartup |-> session[u]]
    /\ fileMetadata' = LoadMetadata(metadataFile)
    /\ req' = [r \in Slots |-> Idle]
    /\ form' = NoForm(form.started)
    /\ tempDir' = CleanupTempFiles(tempFiles, failing)
    /\ uploadsDir' = [p \in DOMAIN uploadsDir \ {TempPath(v) : v \in tempDir \ tempDir'}
                         |-> uploadsDir[p]]
    /\ stale' = stale \cap tempDir'
    /\ resp' = NoResponse
    /\ UNCHANGED <<uuidCount, blob, metadataFile, origin>>

(***************************************************************************)
(* PATCH /api/upload/:id: the synchronous part of the handler.             *)
(***************************************************************************)
\* The 409 test with a header that is not a number let through.
OffsetMismatchUnlessNaN(uploadOffset, upload) ==
    ~uploadOffset.nan /\ uploadOffset.val # upload.offset

\* The 409 test of the handler.
OffsetMismatch(uploadOffset, upload) == StrictNotEqual(uploadOffset, upload.offset)

\* fs.createWriteStream(upload.tempPath, {flags: 'r+', start}): the request in
\* slot r now holds the file open.  Opening a file that is not there makes the
\* stream emit 'error', which nobody listens for: the process dies.
CreateWriteStream(r, uploadId, start) ==
    IF uploadId \in tempDir
    THEN /\ req' = [req EXCEPT ![r] = [phase |-> "streaming", id |-> uploadId,
                                       inode |-> TempInode(uploadId),
                                       start |-> start, bytesWritten |-> 0,
                                       flushed |-> 0]]
         /\ UNCHANGED alive
    ELSE /\ alive' = FALSE
         /\ UNCHANGED req

\* The slot a new request takes: the lowest one not in use (slots are alike).
FreeSlot == IF \A r \in Slots : req[r].phase # "idle" THEN 0
            ELSE CHOOSE r \in Slots : /\ req[r].phase = "idle"
                                     /\ \A k \in Slots : req[k].phase = "idle" => r <= k

\* An accepted request goes on in a slot of its own; a rejected one needs none.
PatchStart(uploadId, offsetHeader) ==
    LET uploadOffset == ParseInt(offsetHeader)
    IN  /\ alive
        /\ IF uploadId \notin uploads
           THEN /\ resp' = Response(404, NoHeaders)
                /\ UNCHANGED <<alive, req>>
           ELSE IF OffsetMismatch(uploadOffset, session[uploadId])
           THEN /\ resp' = Response(409, NoHeaders)
                /\ UNCHANGED <<alive, req>>
           ELSE /\ FreeSlot \in Slots
                /\ CreateWriteStream(FreeSlot, uploadId, uploadOffset.val)
                /\ resp' = NoResponse
        /\ UNCHANGED <<uuidCount, uploads, session, tempDir, blob, uploadsDir,
                       fileMetadata, metadataFile, origin, form, stale>>

(***************************************************************************)
(* PATCH: the stream callbacks.                                            *)
(***************************************************************************)
\* req.on('data'): one byte is handed to the write stream and counted.
PatchData(r) ==
    /\ alive
    /\ req[r].phase = "streaming"
    /\ req[r].bytesWritten < MaxBody
    /\ req' = [req EXCEPT ![r].bytesWritten = @ + 1]
    /\ resp' = NoResponse
    /\ UNCHANGED <<alive, uuidCount, uploads, session, tempDir, blob, uploadsDir,
                   fileMetadata, metadataFile, origin, form, stale>>

\* The write stream writes what it has buffered to its open file, at the
\* position after what it wrote before; a stream that has ended is then closed.
WriteFlush(r) ==
    LET q == req[r]
    IN  /\ alive
        /\ q.phase \in {"streaming", "ended"}
        /\ q.flushed < q.bytesWritten
        /\ blob' = [blob EXCEPT ![q.inode] =
                       WriteAt(@, q.start + q.flushed,
                               FileBytes(q.start + q.flushed, q.bytesWritten - q.flushed))]
        /\ req' = [req EXCEPT ![r] = IF q.phase = "ended" THEN Idle
                                     ELSE [q EXCEPT !.flushed = q.bytesWritten]]
        /\ stale' = stale \ {v \in tempDir : TempInode(v) = q.inode}
        /\ resp' = NoResponse
        /\ UNCHANGED <<alive, uuidCount, uploads, session, tempDir, uploadsDir,
                       fileMetadata, metadataFile, origin, form>>

\* An 'error' callback that counts the bytes received so far into the offset.
PatchErrorCountsBytes(r) ==
    /\ alive
    /\ req[r].phase = "streaming"
    /\ req' = [req EXCEPT ![r] = Idle]
    /\ resp' = Response(500, NoHeaders)
    /\ session' = [session EXCEPT ![req[r].id].offset = @ + req[r].bytesWritten]
    /\ UNCHANGED <<alive, uuidCount, uploads, tempDir, blob, uploadsDir,
                   fileMetadata, metadataFile, origin, form, stale>>

\* req.on('error'): the stream is destroyed, what it had buffered is dropped.
PatchError(r) ==
    /\ alive
    /\ req[r].phase = "streaming"
    /\ req' = [req EXCEPT ![r] = Idle]
    /\ resp' = Response(500, NoHeaders)
    /\ UNCHANGED <<alive, uuidCount, uploads, session, tempDir, blob, uploadsDir,
                   fileMetadata, metadataFile, origin, form, stale>>

\* The record built at server.js:232-240.
FileMetadataEntry(fileId, upload, finalPath, now) ==
    [id |-> fileId,
     originalName |-> upload.filename,
     fileName |-> Basename(finalPath),
     size |-> upload.length,
     mimetype |-> upload.filetype,
     uploadDate |-> now,
     filePath |-> finalPath]

\* An offset that is set to the size of the last chunk.
OffsetOfChunk(upload, bytesWritten) == bytesWritten

\* The offset after `upload.offset += bytesWritten`.
AdvancedOffset(upload, bytesWritten) == upload.offset + bytesWritten

\* `if (upload.offset >= upload.length)`
IsComplete(offset, upload) == offset >= upload.length

\* A rename that goes through although the temp file is gone.
RenameOfMissingSucceeds(uploadId, renameFails) == ~renameFails

\* Whether fs.renameSync(upload.tempPath, finalPath) goes through; renameFails
\* is a failure of the file system itself.
RenameSucceeds(uploadId, renameFails) == uploadId \in tempDir /\ ~renameFails

\* The Upload-Offset header of the 204 response.
PatchResponse(offset) == Response(204, [UploadOffset |-> offset])

\* The slot after 'end': writeStream.end() leaves the stream open until what it
\* has buffered is written.
AfterEnd(q) == IF q.flushed = q.bytesWritten THEN Idle ELSE [q EXCEPT !.phase = "ended"]

\* req.on('end'): the offset advances, the session is (re)entered in the Map,
\* and a complete upload is finalized; the answer is 204 in every case.
PatchEnd(r, now, renameFails, saveFails) ==
    LET q == req[r]
        uploadId == q.id
        offset == AdvancedOffset(session[uploadId], q.bytesWritten)
        upload == [session[uploadId] EXCEPT !.offset = offset]
        finalPath == FinalPath(now, upload.filename)
        fileId == generateUUID
    IN  /\ alive
        /\ q.phase = "streaming"
        /\ session' = [session EXCEPT ![uploadId] = upload]
        /\ req' = [req EXCEPT ![r] = AfterEnd(q)]
        /\ resp' = PatchResponse(offset)
        /\ IF IsComplete(offset, upload) /\ RenameSucceeds(uploadId, renameFails)
           THEN /\ tempDir' = (tempDir \ {uploadId}) \cup TempTargets(finalPath)
                /\ uploadsDir' = (finalPath :> TempInode(uploadId))
                                     @@ [p \in DOMAIN uploadsDir \ {TempPath(uploadId)}
                                            |-> uploadsDir[p]]
                /\ stale' = (stale \ ({uploadId} \cup TempTargets(finalPath)))
                                \cup (IF uploadId \in stale THEN TempTargets(finalPath)
                                      ELSE {})
                /\ uuidCount' = fileId
                /\ fileMetadata' = (fileId :> FileMetadataEntry(fileId, upload, finalPath,
                                                                   now))
                                       @@ fileMetadata
                /\ metadataFile' = SaveMetadata(fileMetadata', saveFails)
                /\ origin' = (fileId :> uploadId) @@ origin
                /\ uploads' = uploads \ {uploadId}
           ELSE /\ uploads' = uploads \cup {uploadId}
                /\ UNCHANGED <<tempDir, uploadsDir, uuidCount, fileMetadata,
                               metadataFile, origin, stale>>
        /\ UNCHANGED <<alive, blob, form>>

Next ==
    \/ \E h \in LengthHeaders, m \in MetadataHeaders, t \in Clock, f \in BOOLEAN :
          CreateSession(h, m, t, f) /\ UNCHANGED client
    \/ \E i \in Ids : HeadOffset(i) /\ UNCHANGED client
    \/ \E i \in Ids, h \in OffsetHeaders : PatchStart(i, h) /\ UNCHANGED client
    \/ \E r \in Slots : PatchData(r) /\ UNCHANGED client
    \/ \E r \in Slots : WriteFlush(r) /\ UNCHANGED client
    \/ \E r \in Slots : PatchError(r) /\ UNCHANGED client
    \/ \E r \in Slots, t \in Clock, f \in BOOLEAN, g \in BOOLEAN :
          PatchEnd(r, t, f, g) /\ UNCHANGED client

Spec == Init /\ [][Next]_vars

(***************************************************************************)
(* The catalog: the same server with clients that also use the simple      *)
(* upload, the list, the download and the delete, that may name a file     *)
(* outside the uploads directory, and that send one PATCH at a time.       *)
(***************************************************************************)
CatalogMetadataHeaders ==
    {m \in MetadataHeaders : m # <<>>} \cup TraversalMetadataHeaders

NoPatchInFlight == \A r \in Slots : req[r].phase = "idle"

CatalogNext ==
    \/ \E h \in LengthHeaders, m \in CatalogMetadataHeaders, t \in Clock, f \in BOOLEAN :
          CreateSession(h, m, t, f) /\ UNCHANGED client
    \/ \E i \in FileIds : HeadOffset(i) /\ UNCHANGED client
    \/ \E i \in FileIds, h \in OffsetHeaders :
          NoPatchInFlight /\ PatchStart(i, h) /\ UNCHANGED client
    \/ \E r \in Slots : PatchData(r) /\ UNCHANGED client
    \/ \E r \in Slots : WriteFlush(r) /\ UNCHANGED client
    \/ \E r \in Slots : PatchError(r) /\ UNCHANGED client
    \/ \E r \in Slots, t \in Clock, f \in BOOLEAN, g \in BOOLEAN :
          PatchEnd(r, t, f, g) /\ UNCHANGED client
    \/ \E n \in OriginalFilenames, t \in Clock, f \in BOOLEAN :
          SimpleUploadStart(n, t, f) /\ UNCHANGED client
    \/ \E e \in BOOLEAN, t \in Clock, g \in BOOLEAN :
          SimpleUploadParsed(e, t, g) /\ UNCHANGED client
    \/ ListFiles /\ UNCHANGED client
    \/ \E i \in FileIds : Download(i) /\ UNCHANGED client
    \/ \E i \in FileIds, f \in BOOLEAN, g \in BOOLEAN :
          DeleteFile(i, f, g) /\ UNCHANGED client

CatalogSpec == Init /\ [][CatalogNext]_vars

(***************************************************************************)
(* Sessions side by side: clients that create sessions and send one PATCH  *)
(* at a time, and list, download and delete what is finalized.  A client   *)
(* that has the Location of the first session may name that session's temp *)
(* file as its filename.  The catalog is saved without failures here.      *)
(***************************************************************************)
PeerMetadataHeaders ==
    {m \in MetadataHeaders : m # <<>>}
        \cup (IF 1 \in uploads THEN TempTargetMetadataHeaders ELSE {})

PeersNext ==
    \/ \E L \in 1..MaxUploadLength, m \in PeerMetadataHeaders, t \in Clock, f \in BOOLEAN :
          CreateUpload(Numeral(L), m, t, f, MaxPeerSessions) /\ UNCHANGED client
    \/ \E i \in PeerIds : HeadOffset(i) /\ UNCHANGED client
    \/ \E i \in PeerIds, h \in OffsetHeaders :
          NoPatchInFlight /\ PatchStart(i, h) /\ UNCHANGED client
    \/ \E r \in Slots : PatchData(r) /\ UNCHANGED client
    \/ \E r \in Slots : WriteFlush(r) /\ UNCHANGED client
    \/ \E r \in Slots : PatchError(r) /\ UNCHANGED client
    \/ \E r \in Slots, t \in Clock, f \in BOOLEAN :
          PatchEnd(r, t, f, FALSE) /\ UNCHANGED client
    \/ ListFiles /\ UNCHANGED client
    \/ \E i \in PeerIds : Download(i) /\ UNCHANGED client
    \/ \E i \in PeerIds, f \in BOOLEAN : DeleteFile(i, f, FALSE) /\ UNCHANGED client

PeersSpec == Init /\ [][PeersNext]_vars

(***************************************************************************)
(* The sweeper: a server that is restarted, with clients that create       *)
(* sessions and send one PATCH at a time, while the temp files age.  Time  *)
(* passes and a write stream writes what it holds whatever the clients do. *)
(***************************************************************************)
SweepNext ==
    \/ \E h \in LengthHeaders, m \in MetadataHeaders, t \in Clock, f \in BOOLEAN :
          /\ m # <<>>
          /\ Cardinality(DOMAIN blob) < MaxTempFiles
          /\ CreateSession(h, m, t, f)
          /\ UNCHANGED client
    \/ \E i \in FileIds, h \in OffsetHeaders :
          NoPatchInFlight /\ PatchStart(i, h) /\ UNCHANGED client
    \/ \E r \in Slots : PatchData(r) /\ UNCHANGED client
    \/ \E r \in Slots : WriteFlush(r) /\ UNCHANGED client
    \/ \E r \in Slots : PatchError(r) /\ UNCHANGED client
    \/ \E r \in Slots, t \in Clock, f \in BOOLEAN, g \in BOOLEAN :
          PatchEnd(r, t, f, g) /\ UNCHANGED client
    \/ \E u \in FileIds : AgeOut(u) /\ UNCHANGED client
    \/ \E l \in Listings(tempDir), failing \in SUBSET tempDir :
          Restart(l, failing) /\ UNCHANGED client

SweepSpec ==
    /\ Init
    /\ [][SweepNext]_vars
    /\ \A u \in FileIds : WF_vars(AgeOut(u) /\ UNCHANGED client)
    /\ \A r \in Slots : WF_vars(WriteFlush(r) /\ UNCHANGED client)

(***************************************************************************)
(* The bundled client (FileUpload.tsx, resumableUpload): it creates a      *)
(* session for a file and sends the file in chunks, one PATCH after the    *)
(* other, each awaited.                                                    *)
(***************************************************************************)
\* Stands for a file name with a character above U+00FF, on which btoa throws.
NonLatin1Name == "U+65E5.txt"

ClientFileNames == {"a.txt", NonLatin1Name}

\* file.type is empty where the browser knows no type for the file.
ClientFileTypes == {"text/plain", ""}

\* The files a user may choose: not empty, and within the 25GB of the page.
ClientFiles == [name : ClientFileNames, type : ClientFileTypes, size : 1..MaxUploadLength]

\* btoa throws InvalidCharacterError on a character outside Latin1.
BtoaThrows(v) == v = NonLatin1Name

\* btoa(v)
Btoa(v) ==
    CASE v = "a.txt" -> "YS50eHQ="
      [] v = "text/plain" -> "dGV4dC9wbGFpbg=="
      [] v = "application/octet-stream" -> "YXBwbGljYXRpb24vb2N0ZXQtc3RyZWFt"
      [] OTHER -> ""

\* `filename ${btoa(file.name)},filetype ${btoa(file.type || 'application/octet-stream')}`:
\* the text, as its items between commas, each as its words between spaces.
MetadataText(file) ==
    <<<<"filename", Btoa(file.name)>>,
      <<"filetype", Btoa(IF file.type = "" THEN "application/octet-stream" ELSE file.type)>>>>

\* btoa of a metadata text: one word of base64 letters, without comma or space.
BtoaText(text) ==
    IF text = <<<<"filename", "YS50eHQ=">>, <<"filetype", "dGV4dC9wbGFpbg==">>>>
    THEN "ZmlsZW5hbWUgWVM1MGVIUT0sZmlsZXR5cGUgZEdWNGRDOXdiR0ZwYmc9PQ=="
    ELSE IF text = <<<<"filename", "YS50eHQ=">>,
                     <<"filetype", "YXBwbGljYXRpb24vb2N0ZXQtc3RyZWFt">>>>
    THEN "ZmlsZW5hbWUgWVM1MGVIUT0sZmlsZXR5cGUgWVhCd2JHbGpZWFJwYjI0dmIyTjBaWFF0YzNSeVpXRnQ="
    ELSE ""

\* What split(',') and split(' ') make of a header value that is one word: one
\* item, whose key is the word and whose value is undefined, taken as ''.
OneWordHeader(word) == <<<<word, "">>>>

\* The Upload-Metadata header of the client, as the server splits it: the
\* client encodes the whole text once more.
ClientMetadataHeader(file) == OneWordHeader(BtoaText(MetadataText(file)))

\* The entry the page shows for a file; location is history, the session the
\* upload of the entry was given.
ClientEntry(file) ==
    [name |-> file.name, type |-> file.type, size |-> file.size, status |-> "uploading",
     location |-> 0]

\* The entry uploadFile is working on: the last one.
Current == client.entries[Len(client.entries)]

\* file.slice(offset, offset + chunkSize).size
ChunkOf(size, offset) == IF size - offset < ChunkSize THEN size - offset ELSE ChunkSize

\* A client that does not move its offset after a chunk.
ClientOffsetStuck(offset, chunk) == offset

\* `offset += chunk.size`
ClientOffsetAfter(offset, chunk) == offset + chunk

\* setUploadedFiles(... status ...) on the current entry; uploadFile is over.
ClientSettled(status) ==
    [client EXCEPT !.entries[Len(client.entries)].status = status, !.pc = "idle"]

\* handleFiles calls resumableUpload for the next file, after the upload
\* before it has resolved or rejected: the entry is added.
ResumableUpload(file) ==
    /\ client.pc = "idle"
    /\ Len(client.entries) < MaxFiles
    /\ client' = [client EXCEPT !.entries = Append(@, ClientEntry(file)),
                                !.pc = "create", !.location = 0, !.offset = 0]
    /\ UNCHANGED serverVars

\* Step 1 of uploadFile: the metadata is encoded and POST /api/upload is
\* sent and answered.  A btoa that throws, or an answer that is not ok, or
\* one without Location, ends in the catch.
ClientCreate(now, writeFails) ==
    /\ client.pc = "create"
    /\ IF BtoaThrows(Current.name)
       THEN /\ client' = ClientSettled("error")
            /\ UNCHANGED serverVars
       ELSE /\ CreateUpload(Numeral(Current.size),
                            ClientMetadataHeader([name |-> Current.name,
                                                  type |-> Current.type]),
                            now, writeFails, MaxFiles)
            /\ client' = IF resp'.status = 201
                         THEN [client EXCEPT !.pc = "loop",
                                             !.location = resp'.headers.Location,
                                             !.offset = 0,
                                             !.entries[Len(client.entries)].location =
                                                 resp'.headers.Location]
                         ELSE ClientSettled("error")

\* The loop goes on: a PATCH with the client's offset is sent and reaches the
\* handler.  A 404 or 409, or a server that dies, ends in the catch.
ClientPatch ==
    /\ client.pc = "loop"
    /\ client.offset < Current.size
    /\ PatchStart(client.location, Numeral(client.offset))
    /\ client' = IF resp'.status \in {404, 409} \/ ~alive'
                 THEN ClientSettled("error")
                 ELSE [client EXCEPT !.pc = "patch"]

\* The loop is over: the entry is set to success.
ClientFinish ==
    /\ client.pc = "loop"
    /\ client.offset >= Current.size
    /\ client' = ClientSettled("success")
    /\ UNCHANGED serverVars

\* A byte of the chunk reaches the server.
ClientData(r) ==
    /\ client.pc = "patch"
    /\ req[r].bytesWritten < ChunkOf(Current.size, client.offset)
    /\ PatchData(r)
    /\ UNCHANGED client

\* The chunk has arrived whole: the server's 'end' callback answers 204 and
\* the client adds the size of the chunk to its offset.
ClientPatchEnd(r, now, renameFails, saveFails) ==
    /\ client.pc = "patch"
    /\ req[r].bytesWritten = ChunkOf(Current.size, client.offset)
    /\ PatchEnd(r, now, renameFails, saveFails)
    /\ client' = [client EXCEPT !.pc = "loop",
                                !.offset = ClientOffsetAfter(client.offset,
                                                             ChunkOf(Current.size,
                                                                     client.offset))]

\* The PATCH is interrupted: the server's 'error' callback runs, the fetch
\* rejects or is answered 500, and the catch sets the entry to error.
ClientPatchError(r) ==
    /\ client.pc = "patch"
    /\ PatchError(r)
    /\ client' = ClientSettled("error")

\* retryUpload, resumeUpload, pauseUpload: a line in the console.
RetryUpload(k) ==
    /\ k \in DOMAIN client.entries
    /\ client.entries[k].status = "error"
    /\ UNCHANGED vars

\* The client against the server, with nothing failing.
ClientNext ==
    \/ \E file \in ClientFiles : ResumableUpload(file)
    \/ \E t \in Clock : ClientCreate(t, FALSE)
    \/ ClientPatch
    \/ ClientFinish
    \/ \E r \in Slots : ClientData(r)
    \/ \E r \in Slots : WriteFlush(r) /\ UNCHANGED client
    \/ \E r \in Slots, t \in Clock : ClientPatchEnd(r, t, FALSE, FALSE)

\* The steps go on as long as there are any: the awaited answers arrive and
\* the event loops run.  Choosing a file is left to the user.
ClientFairness ==
    /\ \A t \in Clock : WF_vars(ClientCreate(t, FALSE))
    /\ WF_vars(ClientPatch)
    /\ WF_vars(ClientFinish)
    /\ \A r \in Slots : WF_vars(ClientData(r))
    /\ \A r \in Slots : WF_vars(WriteFlush(r) /\ UNCHANGED client)
    /\ \A r \in Slots, t \in Clock : WF_vars(ClientPatchEnd(r, t, FALSE, FALSE))

ClientSpec == Init /\ [][ClientNext]_vars /\ ClientFairness

\* The same with PATCH requests that may be interrupted, and a user who may
\* press Retry.
FlakyNext ==
    \/ ClientNext
    \/ \E r \in Slots : ClientPatchError(r)
    \/ \E k \in 1..MaxFiles : RetryUpload(k)

FlakySpec ==
    /\ Init
    /\ [][FlakyNext]_vars
    /\ ClientFairness
    /\ \A k \in 1..MaxFiles : WF_vars(RetryUpload(k))


(***************************************************************************)
(* The variant of the server built on tus-node-server (unnamed/part_004).  *)
(* The library receives the uploads and stores each file in the uploads    *)
(* directory under upload.id; the variant's own code is onUploadFinish,    *)
(* the catalog with its load and save, and the list, download and delete   *)
(* handlers.  Its state is the `fileMetadata` Map, file-metadata.json and  *)
(* the uploads directory.                                                  *)
(***************************************************************************)
\* The names the datastore stores files under: `${Date.now()}-${sanitizedName}`.
TusUploadIds == {Stamped(t, name) : t \in Clock, name \in OriginalFilenames}

\* upload.metadata as the library hands it over; "" where a key is absent.
TusUploadMetadata == [filename : {"a.txt", ""}, filetype : {"text/plain", ""}]

\* path.join(uploadsDir, upload.id) and path.join(uploadsDir, metadata.fileName)
TusFilePath(fileName) == PathJoin(UploadsPath, <<fileName>>)

\* The inode of the file the datastore creates next.
TusInode == Cardinality(DOMAIN blob) + 1

\* loadMetadata: the entries of the document in a new Map; an empty Map where
\* the document cannot be read or parsed.
TusLoadMetadata(document, readFails) ==
    IF readFails THEN <<>> ELSE [key \in DOMAIN document |-> document[key]]

\* saveMetadata: the whole Map is written; a failed write is logged and dropped.
TusSaveMetadata(metadataMap, saveFails) ==
    IF saveFails THEN metadataFile ELSE metadataMap

\* The record built in onUploadFinish.
TusFileMetadata(fileId, uploadId, metadata, size, now) ==
    [id |-> fileId,
     originalName |-> IF metadata.filename = "" THEN "unknown-file" ELSE metadata.filename,
     fileName |-> uploadId,
     size |-> size,
     mimetype |-> IF metadata.filetype = "" THEN "application/octet-stream"
                  ELSE metadata.filetype,
     uploadDate |-> now,
     filePath |-> TusFilePath(uploadId)]

\* metadataMap.set(fileId, fileMetadata) on the Map that was just loaded.
TusWithEntry(metadataMap, fileId, entry) ==
    [f \in DOMAIN metadataMap \cup {fileId} |->
        IF f = fileId THEN entry ELSE metadataMap[f]]

\* The library has stored the last byte of an upload of n bytes under
\* uploadId and calls onUploadFinish.  The handler reads the size of the
\* file, loads the document into a Map of its own, sets the new record in it
\* and saves it; whatever throws is caught and logged.
OnUploadFinish(uploadId, metadata, n, now, statFails, readFails, saveFails) ==
    /\ alive
    /\ Cardinality(DOMAIN blob) < MaxTusUploads
    /\ blob' = [i \in DOMAIN blob \cup {TusInode} |->
                   IF i = TusInode THEN FileBytes(0, n) ELSE blob[i]]
    /\ uploadsDir' = [p \in DOMAIN uploadsDir \cup {TusFilePath(uploadId)} |->
                         IF p = TusFilePath(uploadId) THEN TusInode ELSE uploadsDir[p]]
    /\ IF statFails
       THEN UNCHANGED <<uuidCount, metadataFile>>
       ELSE /\ uuidCount' = generateUUID
            /\ metadataFile' =
                   TusSaveMetadata(
                       TusWithEntry(TusLoadMetadata(metadataFile, readFails), generateUUID,
                                    TusFileMetadata(generateUUID, uploadId, metadata, n, now)),
                       saveFails)
    /\ resp' = NoResponse
    /\ UNCHANGED <<alive, uploads, session, tempDir, fileMetadata, req, origin, form,
                   stale, client>>

\* What GET /api/files answers in the current state.
TusListResponse ==
    Response(200, [Files |-> {[id |-> fileMetadata[f].id,
                               name |-> fileMetadata[f].originalName,
                               size |-> fileMetadata[f].size,
                               uploadDate |-> fileMetadata[f].uploadDate,
                               type |-> fileMetadata[f].mimetype,
                               path |-> fileMetadata[f].id] : f \in DOMAIN fileMetadata}])

TusListFiles ==
    /\ alive
    /\ resp' = TusListResponse
    /\ UNCHANGED <<alive, uuidCount, uploads, session, tempDir, blob, uploadsDir,
                   fileMetadata, metadataFile, req, origin, form, stale, client>>

\* What GET /api/download/:fileId answers in the current state.
TusDownloadResponse(fileId) ==
    IF fileId \notin DOMAIN fileMetadata
    THEN ErrorResponse(404, "File not found")
    ELSE IF ~ExistsSync(TusFilePath(fileMetadata[fileId].fileName))
    THEN ErrorResponse(404, "File not found on disk")
    ELSE Response(200,
             [ContentLength |->
                  Len(blob[uploadsDir[TusFilePath(fileMetadata[fileId].fileName)]]),
              Body |-> blob[uploadsDir[TusFilePath(fileMetadata[fileId].fileName)]]])

TusDownload(fileId) ==
    /\ alive
    /\ resp' = TusDownloadResponse(fileId)
    /\ UNCHANGED <<alive, uuidCount, uploads, session, tempDir, blob, uploadsDir,
                   fileMetadata, metadataFile, req, origin, form, stale, client>>

\* DELETE /api/files/:fileId: the file is unlinked if it is there, the entry
\* is deleted from the Map of the process and that Map is saved.
TusDeleteFile(fileId, unlinkFails, saveFails) ==
    /\ alive
    /\ IF fileId \notin DOMAIN fileMetadata
       THEN /\ resp' = ErrorResponse(404, "File not found")
            /\ UNCHANGED <<uploadsDir, fileMetadata, metadataFile>>
       ELSE IF ExistsSync(TusFilePath(fileMetadata[fileId].fileName)) /\ unlinkFails
       THEN /\ resp' = ErrorResponse(500, "Delete failed")
            /\ UNCHANGED <<uploadsDir, fileMetadata, metadataFile>>
       ELSE /\ uploadsDir' = [q \in DOMAIN uploadsDir
                                        \ {TusFilePath(fileMetadata[fileId].fileName)}
                                 |-> uploadsDir[q]]
            /\ fileMetadata' = [f \in DOMAIN fileMetadata \ {fileId} |-> fileMetadata[f]]
            /\ metadataFile' = TusSaveMetadata(fileMetadata', saveFails)
            /\ resp' = Response(200, [Success |-> TRUE])
    /\ UNCHANGED <<alive, uuidCount, uploads, session, tempDir, blob, req, origin, form,
                   stale, client>>

\* The process is started again: `fileMetadata = loadMetadata()`.
TusRestart(readFails) ==
    /\ alive' = TRUE
    /\ fileMetadata' = TusLoadMetadata(metadataFile, readFails)
    /\ resp' = NoResponse
    /\ UNCHANGED <<uuidCount, uploads, session, tempDir, blob, uploadsDir, metadataFile,
                   req, origin, form, stale, client>>

TusNext ==
    \/ \E uploadId \in TusUploadIds, metadata \in TusUploadMetadata,
          n \in 1..MaxUploadLength, now \in Clock,
          statFails \in BOOLEAN, readFails \in BOOLEAN, saveFails \in BOOLEAN :
          OnUploadFinish(uploadId, metadata, n, now, statFails, readFails, saveFails)
    \/ TusListFiles
    \/ \E fileId \in 1..MaxTusUploads : TusDownload(fileId)
    \/ \E fileId \in 1..MaxTusUploads, unlinkFails \in BOOLEAN, saveFails \in BOOLEAN :
          TusDeleteFile(fileId, unlinkFails, saveFails)
    \/ \E readFails \in BOOLEAN : TusRestart(readFails)

TusSpec == Init /\ [][TusNext]_vars


(***************************************************************************)
(* Vocabulary of the properties.                                           *)
(***************************************************************************)
\* The catalog records ever made from upload u.
RecordsOf(u) == {f \in DOMAIN origin : origin[f] = u}

\* The slots whose request has passed the offset check of upload u and whose
\* 'end' or 'error' callback has not run yet.
Writers(u) == {r \in Slots : req[r].phase = "streaming" /\ req[r].id = u}

\* A header that does not name the offset k: not sent, not starting with a
\* number, or naming another number; k is named by its numeral, with or without
\* text after it.
ClaimsOtherOffset(h, k) == h \notin {Numeral(k), Numeral(k) \o <<"a">>}

\* This step moves the temp file of upload u into the permanent directory.
Promotes(u) ==
    /\ u \in tempDir
    /\ u \notin tempDir'
    /\ \E p \in DOMAIN uploadsDir' : uploadsDir'[p] = u

(***************************************************************************)
(* C1: chunk writes to one session are serialized: no two PATCH requests   *)
(* on the same session are between their offset check and their end at    *)
(* the same time.  The handler takes no lock, so this fails.               *)
(***************************************************************************)
C1_WritesSerialized == \A u \in DOMAIN session : Cardinality(Writers(u)) <= 1

(***************************************************************************)
(* C2: every session in the active-session map has                         *)
(* 0 <= offset <= totalLength.  Fails: the offset advances by whatever the *)
(* body held, and a negative declared length is accepted.                  *)
(***************************************************************************)
C2_OffsetWithinLength ==
    \A u \in uploads : 0 <= session[u].offset /\ session[u].offset <= session[u].length

C4_FinalizedExactlyOnce ==
    /\ [](\A u \in DOMAIN session : Cardinality(RecordsOf(u)) <= 1)
    /\ [][/\ \A u \in DOMAIN session :
                Promotes(u) =>
                    \E f \in DOMAIN fileMetadata' :
                        /\ f \notin DOMAIN fileMetadata
                        /\ DOMAIN fileMetadata' = DOMAIN fileMetadata \cup {f}
                        /\ origin'[f] = u
                        /\ fileMetadata'[f].size = session[u].length
                        /\ fileMetadata'[f].originalName = session[u].filename
                        /\ session'[u].offset >= session[u].length
                        /\ u \notin uploads'
          /\ \A f \in DOMAIN fileMetadata' :
                f \notin DOMAIN fileMetadata => Promotes(origin'[f])]_vars

\* A session of length 2 was filled to exactly 2 bytes and finalized.
C4_Witness ==
    \E f \in DOMAIN fileMetadata :
        /\ fileMetadata[f].size = 2
        /\ fileMetadata[f].originalName = "a.txt"
        /\ session[origin[f]].offset = 2
        /\ blob[origin[f]] = FileBytes(0, 2)
        /\ origin[f] \notin uploads

(***************************************************************************)
(* C5: whenever the 'end' step of a PATCH answers 204 with Upload-Offset   *)
(* equal to the session's totalLength, the session has left the map, its   *)
(* temp blob is in the permanent area and the catalog holds its record.    *)
(* Fails: a promotion that throws is answered 204 all the same.            *)
(***************************************************************************)
C5_FinalizedBeforeAnswer ==
    [][\A r \in Slots, t \in Clock, f \in BOOLEAN, g \in BOOLEAN :
          (/\ PatchEnd(r, t, f, g)
           /\ resp'.status = 204
           /\ resp'.headers.UploadOffset = session[req[r].id].length)
          => /\ req[r].id \notin uploads'
             /\ req[r].id \notin tempDir'
             /\ \E p \in DOMAIN uploadsDir' : uploadsDir'[p] = req[r].id
             /\ \E k \in DOMAIN fileMetadata' : origin'[k] = req[r].id]_vars

(***************************************************************************)
(* C6: a session that has been finalized is never again in the             *)
(* active-session map.  Fails: the 'end' step of a PATCH that was in       *)
(* flight at finalization enters the session in the map again.            *)
(***************************************************************************)
C6_FinalizedStaysGone == \A u \in DOMAIN session : RecordsOf(u) # {} => u \notin uploads

(***************************************************************************)
(* C7: when the promotion of the temp blob throws, the completing PATCH is *)
(* answered with an internal-error status, never 204.  Fails: the handler  *)
(* catches the error, logs it and answers 204.                             *)
(***************************************************************************)
C7_PromotionFailureAnswered ==
    [][\A r \in Slots, t \in Clock, g \in BOOLEAN :
          (/\ PatchEnd(r, t, TRUE, g)
           /\ session'[req[r].id].offset >= session[req[r].id].length)
          => resp'.status >= 500]_vars

(***************************************************************************)
(* C8: when the promotion of the temp blob fails, the session stays in the *)
(* map with its temp blob in place and untouched, and the catalog, in      *)
(* memory and on disk, is unchanged.  Fails for the promotion that fails   *)
(* because a concurrent PATCH on the session has promoted the blob.        *)
(***************************************************************************)
C8_PromotionFailureKeepsSession ==
    [][\A r \in Slots, t \in Clock, f \in BOOLEAN, g \in BOOLEAN :
          (/\ PatchEnd(r, t, f, g)
           /\ session'[req[r].id].offset >= session[req[r].id].length
           /\ ~RenameSucceeds(req[r].id, f))
          => /\ req[r].id \in uploads'
             /\ req[r].id \in tempDir'
             /\ UNCHANGED <<blob, uploadsDir, fileMetadata, metadataFile>>]_vars

(***************************************************************************)
(* C9: for every active session the temp blob holds at least offset bytes  *)
(* and its first offset bytes are the acknowledged chunks in order.        *)
(* Fails: the offset advances by the bytes handed to the write stream,     *)
(* before any of them is written.                                          *)
(***************************************************************************)
C9_OffsetCountsWrittenBytes ==
    \A u \in uploads :
        /\ Len(blob[u]) >= session[u].offset
        /\ \A i \in 1..session[u].offset : blob[u][i] = FileByte(i - 1)

(***************************************************************************)
(* C10: when the request stream of a PATCH fails, the 'error' step         *)
(* answers 500 and changes neither the session (its offset stays), nor the *)
(* map, nor the catalog, nor the permanent area; the 'data' steps before   *)
(* it changed none of them either.                                         *)
(***************************************************************************)
C10_StreamErrorKeepsOffset ==
    [][\A r \in Slots :
          /\ PatchError(r) =>
                /\ resp'.status = 500
                /\ UNCHANGED <<uploads, session, tempDir, uploadsDir, fileMetadata,
                               metadataFile, origin>>
          /\ PatchData(r) =>
                UNCHANGED <<uploads, session, tempDir, uploadsDir, fileMetadata,
                            metadataFile, origin>>]_vars

\* A request failed after one of its bytes reached the temp blob: the session
\* is still active at offset 0 and nothing was catalogued.
C10_Witness ==
    /\ resp.status = 500
    /\ \A r \in Slots : req[r].phase = "idle"
    /\ \E u \in uploads : /\ session[u].offset = 0
                          /\ blob[u] = FileBytes(0, 1)
                          /\ u \in tempDir
    /\ fileMetadata = <<>>

(***************************************************************************)
(* Vocabulary of the properties of creation and of the catalog.            *)
(***************************************************************************)
\* The Upload-Length headers that declare a length above the maximum.
OversizeHeaders == {Numeral(n) : n \in (MaxUploadLength + 1)..(MaxUploadLength + 1)}

\* The Upload-Length headers that declare the length L.
Declares(L) == Numeral(L)

\* A header that declares no positive length: not sent, not a number,
\* negative, or zero.
DeclaresNoPositive(h) == h \notin {Numeral(n) : n \in 1..(MaxUploadLength + 1)}

\* The path lies directly in the uploads directory.
InUploads(p) == Len(p) = 2 /\ p[1] = Segment("uploads")

(***************************************************************************)
(* C11: a POST /api/upload that declares a length L with 0 < L <= maximum, *)
(* and whose temp file can be created, answers 201 with a Location that    *)
(* names a session that did not exist; the session is active, its temp     *)
(* blob exists and is empty, and HEAD on the Location answers offset 0 and *)
(* length L.                                                               *)
(***************************************************************************)
C11_ValidLengthCreates ==
    [][\A L \in 1..MaxUploadLength, m \in CatalogMetadataHeaders, t \in Clock :
          CreateSession(Declares(L), m, t, FALSE) =>
              /\ resp'.status = 201
              /\ \E u \in FileIds :
                    /\ resp'.headers.Location = u
                    /\ u \notin DOMAIN session
                    /\ u \notin tempDir
                    /\ u \in uploads'
                    /\ u \in tempDir'
                    /\ blob'[u] = <<>>
                    /\ HeadResponse(u)' = Response(200, [UploadOffset |-> 0,
                                                         UploadLength |-> L])]_vars

\* A session of the maximal length was just created: 201, an empty temp blob,
\* and HEAD on the Location answers offset 0 and that length.
C11_Witness ==
    /\ resp.status = 201
    /\ \E u \in uploads :
          /\ resp.headers.Location = u
          /\ session[u].length = 2
          /\ u \in tempDir
          /\ blob[u] = <<>>
          /\ HeadResponse(u) = Response(200, [UploadOffset |-> 0, UploadLength |-> 2])

(***************************************************************************)
(* C12: a POST /api/upload that declares a length above the maximum is     *)
(* answered 413 and allocates nothing: the map of sessions, the sessions   *)
(* and the temp directory are unchanged, and HEAD answers for every id     *)
(* what it answered before.                                                *)
(***************************************************************************)
C12_OversizeRejected ==
    [][\A h \in OversizeHeaders, m \in CatalogMetadataHeaders, t \in Clock, f \in BOOLEAN :
          CreateSession(h, m, t, f) =>
              /\ resp'.status = 413
              /\ UNCHANGED <<uuidCount, uploads, session, tempDir, blob>>
              /\ \A i \in FileIds : HeadResponse(i)' = HeadResponse(i)]_vars

\* A creation was just refused with 413 while a session is active with its
\* temp blob, and an id that names no session is still unknown to HEAD.
C12_Witness ==
    /\ resp.status = 413
    /\ \E u \in uploads : u \in tempDir /\ session[u].offset = 1
    /\ \E i \in FileIds : HeadResponse(i).status = 404

(***************************************************************************)
(* C13: every session in the map has a totalLength that is positive and    *)
(* at most the maximum, and that never changes; a creation request whose   *)
(* declared length is zero, negative or not a number is answered 413 and   *)
(* creates no session.  Fails: a negative length passes the 413 test.      *)
(***************************************************************************)
C13_LengthValid ==
    /\ [](\A u \in uploads : /\ session[u].length > 0
                            /\ session[u].length <= MaxUploadLength)
    /\ [][/\ \A u \in uploads : u \in uploads' => session'[u].length = session[u].length
          /\ \A h \in LengthHeaders, m \in CatalogMetadataHeaders, t \in Clock,
                f \in BOOLEAN :
                (CreateSession(h, m, t, f) /\ DeclaresNoPositive(h))
                => /\ resp'.status = 413
                   /\ UNCHANGED <<uuidCount, uploads, session, tempDir, blob>>]_vars

\* The file a record names is there, with the inode and the bytes it holds.
BlobOf(file) == <<uploadsDir[file.filePath], blob[uploadsDir[file.filePath]]>>

\* The ids of the files GET /api/files lists.
Listed(response) == {file.id : file \in response.headers.Files}

(***************************************************************************)
(* C14: whatever filename the client declares, the permanent blob made by  *)
(* finalization lies directly in the uploads directory.  Fails: the        *)
(* declared filename goes into path.join as it is, and its '..' segments   *)
(* lead out of the directory.                                              *)
(***************************************************************************)
C14_BlobInsideUploads ==
    /\ \A p \in DOMAIN uploadsDir : InUploads(p)
    /\ \A f \in DOMAIN fileMetadata : InUploads(fileMetadata[f].filePath)

(***************************************************************************)
(* C15: every record of the catalog names a blob that exists in the        *)
(* uploads directory, and a DELETE of a catalogued id leaves either        *)
(* neither the record nor its blob, or both.  Fails for a record whose     *)
(* path left the directory (C14) and for one whose blob went with another  *)
(* record of the same path (C16).                                          *)
(***************************************************************************)
C15_RecordsHaveBlobs ==
    /\ [](\A f \in DOMAIN fileMetadata : /\ ExistsSync(fileMetadata[f].filePath)
                                         /\ InUploads(fileMetadata[f].filePath))
    /\ [][\A i \in DOMAIN fileMetadata, f \in BOOLEAN, g \in BOOLEAN :
             DeleteFile(i, f, g) =>
                 \/ /\ i \notin DOMAIN fileMetadata'
                    /\ fileMetadata[i].filePath \notin DOMAIN uploadsDir'
                 \/ /\ i \in DOMAIN fileMetadata'
                    /\ fileMetadata'[i] = fileMetadata[i]
                    /\ fileMetadata[i].filePath \in DOMAIN uploadsDir']_vars

(***************************************************************************)
(* C16: two distinct records never have the same storage path, and as long *)
(* as a record is in the catalog no step replaces, empties or removes its  *)
(* blob (the bytes its own upload still had to write apart).  Fails: the   *)
(* name is the clock value and the filename, so two files of one name      *)
(* stored at one clock value share a path.                                 *)
(***************************************************************************)
C16_DistinctLocators ==
    /\ [](\A f \in DOMAIN fileMetadata, g \in DOMAIN fileMetadata :
              f # g => fileMetadata[f].filePath # fileMetadata[g].filePath)
    /\ [][\A f \in DOMAIN fileMetadata :
             (f \in DOMAIN fileMetadata' /\ ExistsSync(fileMetadata[f].filePath))
             => /\ fileMetadata[f].filePath \in DOMAIN uploadsDir'
                /\ BlobOf(fileMetadata[f])'[1] = BlobOf(fileMetadata[f])[1]
                /\ \/ BlobOf(fileMetadata[f])'[2] = BlobOf(fileMetadata[f])[2]
                   \/ \E r \in Slots : WriteFlush(r)]_vars

(***************************************************************************)
(* C17: a DELETE of a catalogued id removes the blob and then the record.  *)
(* If the blob cannot be removed, the record stays in the catalog and in   *)
(* the persisted document, the blob stays, and the answer is an error; if  *)
(* the record is removed, the blob is gone.                                *)
(***************************************************************************)
C17_DeleteBlobFirst ==
    [][\A i \in DOMAIN fileMetadata, g \in BOOLEAN :
          /\ (DeleteFile(i, TRUE, g) /\ ExistsSync(fileMetadata[i].filePath))
             => /\ resp'.status >= 500
                /\ UNCHANGED <<fileMetadata, metadataFile, uploadsDir, blob>>
          /\ DeleteFile(i, FALSE, g)
             => /\ resp'.status = 200
                /\ i \notin DOMAIN fileMetadata'
                /\ fileMetadata[i].filePath \notin DOMAIN uploadsDir']_vars

\* A DELETE was just answered 'Delete failed', and the catalog, the document
\* and the blobs are whole: a record is there, persisted, with its blob.
C17_Witness ==
    /\ resp = ErrorResponse(500, "Delete failed")
    /\ \E f \in DOMAIN fileMetadata :
          /\ ExistsSync(fileMetadata[f].filePath)
          /\ f \in DOMAIN metadataFile
          /\ BlobOf(fileMetadata[f])[2] # <<>>

(***************************************************************************)
(* C18: after a DELETE that answers success the id is not listed, its      *)
(* download answers 404, no later step brings the id back, and every other *)
(* record and blob is as it was; a DELETE of an unknown id answers 404 and *)
(* changes nothing.  Fails: the blob of another record of the same path    *)
(* (C16) is removed with it.                                               *)
(***************************************************************************)
C18_DeleteRemovesOnlyThat ==
    /\ [][\A i \in FileIds, f \in BOOLEAN, g \in BOOLEAN :
             DeleteFile(i, f, g) =>
                 IF i \in DOMAIN fileMetadata
                 THEN resp'.status = 200 =>
                          /\ i \notin Listed(ListResponse')
                          /\ DownloadResponse(i)'.status = 404
                          /\ \A k \in DOMAIN fileMetadata \ {i} :
                                /\ k \in DOMAIN fileMetadata'
                                /\ fileMetadata'[k] = fileMetadata[k]
                                /\ DownloadResponse(k)' = DownloadResponse(k)
                 ELSE /\ resp'.status = 404
                      /\ UNCHANGED <<fileMetadata, metadataFile, uploadsDir, blob>>]_vars
    /\ [][\A k \in DOMAIN fileMetadata' :
             k \notin DOMAIN fileMetadata => k > uuidCount]_vars

(***************************************************************************)
(* C19: whenever a step that adds or removes a record answers success, the *)
(* persisted document equals the catalog in memory.  Fails: saveMetadata   *)
(* logs a failed write and returns, and the handler answers success.       *)
(***************************************************************************)
C19_SavedBeforeSuccess ==
    [][(fileMetadata' # fileMetadata /\ resp'.status \in {200, 204})
       => metadataFile' = fileMetadata']_vars

(***************************************************************************)
(* C20: catalog mutations are serialized: a step that changes the catalog  *)
(* adds or removes one record and is the step that rewrites the document,  *)
(* and a rewrite stores the whole catalog as that step leaves it, with     *)
(* every record other requests added and none they removed; no other step  *)
(* writes the document.  (A rewrite that fails leaves the document as it   *)
(* was: C19.)                                                              *)
(***************************************************************************)
C20_CatalogSerialized ==
    [][/\ fileMetadata' # fileMetadata =>
             /\ \E f \in FileIds :
                   \/ /\ f \notin DOMAIN fileMetadata
                      /\ DOMAIN fileMetadata' = DOMAIN fileMetadata \cup {f}
                      /\ \A k \in DOMAIN fileMetadata : fileMetadata'[k] = fileMetadata[k]
                   \/ /\ f \in DOMAIN fileMetadata
                      /\ fileMetadata' = WithoutEntry(fileMetadata, f)
             /\ metadataFile' \in {fileMetadata', metadataFile}
       /\ fileMetadata' = fileMetadata => metadataFile' = metadataFile]_vars

\* Two requests have each added a record, and the document holds both.
C20_Witness ==
    /\ Cardinality(DOMAIN fileMetadata) = 2
    /\ metadataFile = fileMetadata
    /\ \E f \in DOMAIN fileMetadata : f \in DOMAIN origin
    /\ \E f \in DOMAIN fileMetadata : f \notin DOMAIN origin

(***************************************************************************)
(* The temp sweeper.                                                       *)
(***************************************************************************)
\* C23: the sweeper never deletes the temp blob of a session that is in the
\* map of active sessions: whenever a step takes a file out of the temp
\* directory, the process has no session of that id after the step (the
\* sweep runs at the start of a process, whose map is empty; a promotion
\* takes the session out of the map with its temp file).
C23_SweepSparesActive ==
    [][\A u \in tempDir \ tempDir' : u \notin uploads']_vars

\* A start has swept the temp directory: the temp file of a past session is
\* gone, it was not promoted, and there is no active session.
C23_Witness ==
    /\ alive
    /\ uploads = {}
    /\ 1 \in DOMAIN blob
    /\ 1 \notin tempDir
    /\ uploadsDir = <<>>
    /\ fileMetadata = <<>>

\* C24: a sweep removes every temp file older than 24 hours that no active
\* session refers to and retains the younger ones, and a failure on one file
\* does not keep the other old files from being removed.
C24_SweepRemovesEveryOld ==
    [][\A l \in Listings(tempDir), failing \in SUBSET tempDir :
          Restart(l, failing) =>
              \A u \in tempDir :
                  /\ (OlderThanADay(u) /\ u \notin failing) => u \notin tempDir'
                  /\ ~OlderThanADay(u) => u \in tempDir']_vars

\* C25: sweeping is periodic: in a process that keeps running, an old temp
\* file of no active session is deleted at last, without a restart.
C25_OldOrphanSwept ==
    \A u \in FileIds :
        (alive /\ u \in tempDir /\ u \notin uploads /\ OlderThanADay(u))
            ~> (u \notin tempDir \/ u \in uploads \/ ~alive)

(***************************************************************************)
(* The records of the catalog and the sessions, operation by operation.    *)
(***************************************************************************)
\* C21: a record enters the catalog only by the finalization of a session:
\* every record a step adds is the one record of a session that was active
\* and whose offset has reached exactly its totalLength.  Fails: POST
\* /api/upload/simple adds a record that no session stands behind.
C21_RecordsFromSessions ==
    [][\A f \in DOMAIN fileMetadata' :
          f \notin DOMAIN fileMetadata =>
              /\ f \in DOMAIN origin'
              /\ origin'[f] \in uploads
              /\ session'[origin'[f]].offset = session[origin'[f]].length
              /\ \A g \in DOMAIN origin' : origin'[g] = origin'[f] => g = f]_vars

\* C22: a record is immutable: from the step that adds it to the DELETE that
\* removes it none of its fields changes, whatever is uploaded, finalized or
\* deleted meanwhile, and it leaves the catalog by no other step than its
\* DELETE.
C22_RecordImmutable ==
    [][\A f \in DOMAIN fileMetadata :
          IF f \in DOMAIN fileMetadata'
          THEN fileMetadata'[f] = fileMetadata[f]
          ELSE \E g \in BOOLEAN : DeleteFile(f, FALSE, g)]_vars

\* A record is in the catalog as it was added, after a second file was
\* catalogued and then deleted.
C22_Witness ==
    /\ resp = Response(200, [Success |-> TRUE])
    /\ uuidCount = 3
    /\ \E f \in DOMAIN fileMetadata :
          /\ DOMAIN fileMetadata = {f}
          /\ fileMetadata[f].id = f
          /\ fileMetadata[f].size > 0
          /\ fileMetadata[f].originalName = "a.txt"

\* C30: GET /api/download/:fileId answers 404 for an id that is not in the
\* catalog and for a record whose file is missing, and in both cases changes
\* neither the catalog, in memory and on disk, nor the stored files.
C30_DownloadNotFound ==
    [][\A i \in FileIds :
          (/\ Download(i)
           /\ \/ i \notin DOMAIN fileMetadata
              \/ fileMetadata[i].filePath \notin DOMAIN uploadsDir)
          => /\ resp'.status = 404
             /\ UNCHANGED <<fileMetadata, metadataFile, uploadsDir, tempDir, blob>>]_vars

\* A download was just refused for a record whose file is gone; the record is
\* still in the catalog.
C30_Witness ==
    /\ resp = ErrorResponse(404, "File not found on disk")
    /\ \E i \in DOMAIN fileMetadata : fileMetadata[i].filePath \notin DOMAIN uploadsDir

\* C27: HEAD on a session is read-only: it changes neither the map of
\* sessions, nor a temp or permanent file, nor the catalog; and the answer
\* of HEAD for an active session changes in no other step than the 'end' of
\* a PATCH on that session, so that two HEADs with no PATCH completing
\* between them answer the same offset and length.
C27_HeadReadOnly ==
    [][/\ \A i \in Ids :
             HeadOffset(i) =>
                 UNCHANGED <<uploads, session, tempDir, blob, uploadsDir, fileMetadata,
                             metadataFile, req>>
       /\ \A u \in uploads :
             HeadResponse(u)' # HeadResponse(u) =>
                 \E r \in Slots, t \in Clock, f \in BOOLEAN, g \in BOOLEAN :
                     req[r].id = u /\ PatchEnd(r, t, f, g)]_vars

\* HEAD has just answered offset 0 for a session while a PATCH on it has
\* written a byte to the temp file and has not ended.
C27_Witness ==
    \E u \in uploads :
        /\ resp = Response(200, [UploadOffset |-> 0, UploadLength |-> 2])
        /\ resp = HeadResponse(u)
        /\ blob[u] # <<>>
        /\ Writers(u) # {}

\* C28: the offset of a session starts at 0 and never decreases while the
\* session is active, however the PATCH requests on it interleave.
C28_OffsetMonotonic ==
    [][/\ \A u \in uploads' : u \notin DOMAIN session => session'[u].offset = 0
       /\ \A u \in DOMAIN session : session'[u].offset >= session[u].offset]_vars

\* A session is still active after the PATCH requests that took its offset
\* from 0 to 2 have ended (its promotion failed).
C28_Witness ==
    \E u \in uploads :
        /\ session[u].offset = 2
        /\ session[u].length = 2
        /\ resp = PatchResponse(2)
        /\ blob[u] = FileBytes(0, 2)
        /\ Writers(u) = {}

\* C29: a PATCH is answered 404 when its id names no active session, 409
\* when the offset it claims is not the session's, and otherwise, once its
\* body has arrived, 204 with an Upload-Offset that is the claimed offset
\* plus the bytes of the body.  Fails: the 204 carries the session's offset
\* at the end of the request plus the bytes, and a concurrent PATCH on the
\* session may have moved it since the check.
C29_PatchAnswers ==
    [][/\ \A i \in Ids, h \in OffsetHeaders :
             PatchStart(i, h) =>
                 IF i \notin uploads THEN resp'.status = 404
                 ELSE IF ClaimsOtherOffset(h, session[i].offset) THEN resp'.status = 409
                 ELSE resp' = NoResponse /\ Cardinality(Writers(i)') = Cardinality(Writers(i)) + 1
       /\ \A r \in Slots, t \in Clock, f \in BOOLEAN, g \in BOOLEAN :
             PatchEnd(r, t, f, g) =>
                 resp' = PatchResponse(req[r].start + req[r].bytesWritten)]_vars

\* This step is a step of a PATCH request on upload u: its arrival, one of
\* its stream callbacks, or a write of its stream.
PatchOn(u) ==
    \/ \E h \in OffsetHeaders : PatchStart(u, h)
    \/ \E r \in Slots :
          /\ req[r].id = u
          /\ \/ PatchData(r)
             \/ WriteFlush(r)
             \/ PatchError(r)
             \/ \E t \in Clock, f \in BOOLEAN, g \in BOOLEAN : PatchEnd(r, t, f, g)

\* C26: a session is changed by the PATCH requests on its own id only: every
\* other step (a creation, a HEAD, a step of a PATCH on another session or
\* its finalization, a list, a download, a delete) leaves an active session
\* active, with its offset, totalLength and filename, and with its temp file
\* in place, the same file with the same bytes.  Fails: a session whose
\* filename leads to another session's temp path is finalized onto it.
C26_OnlyOwnPatchMutates ==
    [][\A u \in uploads :
          ~PatchOn(u) =>
              /\ u \in uploads'
              /\ session'[u].offset = session[u].offset
              /\ session'[u].length = session[u].length
              /\ session'[u].filename = session[u].filename
              /\ (u \in tempDir) = (u \in tempDir')
              /\ u \in tempDir =>
                    /\ TempInode(u)' = TempInode(u)
                    /\ blob'[TempInode(u)] = blob[TempInode(u)]]_vars

(***************************************************************************)
(* The catalog across a restart, and the sessions and their temp files.    *)
(***************************************************************************)
\* C31: the catalog round-trips across a restart: the process that starts
\* has the catalog the process before it had after its last acknowledged
\* change, the same ids with the same records, and no active session.
\* Fails: a change whose save failed was acknowledged and is lost.
C31_CatalogSurvivesRestart ==
    [][\A l \in Listings(tempDir), failing \in SUBSET tempDir :
          Restart(l, failing) =>
              /\ fileMetadata' = fileMetadata
              /\ uploads' = {}]_vars

\* C32: every session in the map of active sessions has its temp file at its
\* tempPath; no session is in the map after its temp file was promoted or
\* deleted, however the PATCH requests on it interleave.  Fails: the 'end'
\* of a PATCH that was in flight when the session was finalized sets the
\* session in the map again, and its temp file is gone.
C32_ActiveHasTemp == \A u \in uploads : u \in tempDir

\* C33: for every record made by the finalization of a session (of a
\* positive declared length), the size GET /api/files reports, which is the
\* declared totalLength, is the length of the file GET /api/download
\* serves, once no PATCH is in flight and no stream has bytes left to
\* write.  Fails: the bytes of a chunk are written and counted whether or
\* not they fit the declared length.
C33_SizeIsBlobLength ==
    NoPatchInFlight =>
        \A f \in DOMAIN fileMetadata :
            (/\ f \in DOMAIN origin
             /\ fileMetadata[f].size > 0
             /\ DownloadResponse(f).status = 200) =>
                DownloadResponse(f).headers.ContentLength = ListedFile(fileMetadata[f]).size

\* C34: two DELETE requests for one catalogued id, however they arrive, are
\* answered one with success and the other with 404, the file is unlinked
\* once, and the catalog lacks that id and no other.  The handler runs from
\* its lookup to its answer without yielding, so the two run one after the
\* other: a DELETE of a catalogued id whose file can be unlinked answers
\* success, takes that record and no other out of the catalog and leaves no
\* file at its path; a DELETE of an id that is not in the catalog answers
\* 404 and touches neither the catalog nor a file; and an id that was
\* issued and is not in the catalog never comes back.
C34_SecondDeleteNotFound ==
    [][/\ \A i \in FileIds, g \in BOOLEAN :
             DeleteFile(i, FALSE, g) =>
                 IF i \in DOMAIN fileMetadata
                 THEN /\ resp' = Response(200, [Success |-> TRUE])
                      /\ DOMAIN fileMetadata' = DOMAIN fileMetadata \ {i}
                      /\ fileMetadata[i].filePath \notin DOMAIN uploadsDir'
                      /\ \A p \in DOMAIN uploadsDir \ {fileMetadata[i].filePath} :
                            p \in DOMAIN uploadsDir'
                 ELSE /\ resp' = ErrorResponse(404, "File not found")
                      /\ UNCHANGED <<fileMetadata, metadataFile, uploadsDir, tempDir, blob>>
       /\ \A i \in 1..uuidCount :
             i \notin DOMAIN fileMetadata => i \notin DOMAIN fileMetadata']_vars

\* The record of a finalized session was deleted with its file, and a
\* request for its id has just been answered 404.
C34_Witness ==
    /\ resp = ErrorResponse(404, "File not found")
    /\ \E i \in DOMAIN origin :
          /\ i \notin DOMAIN fileMetadata
          /\ i \notin DOMAIN metadataFile
          /\ origin[i] \notin tempDir
    /\ uploadsDir = <<>>

(***************************************************************************)
(* The bundled client against the server.                                  *)
(***************************************************************************)
\* The type the client declares for an entry.
DeclaredType(entry) == IF entry.type = "" THEN "application/octet-stream" ELSE entry.type

\* C36: for a file named N of type T uploaded by the bundled client, the
\* server parses the Upload-Metadata header it is sent so that the session
\* has filename N and filetype T, and the record made from the session has
\* originalName N and content type T.  Fails: the client encodes the whole
\* header once more, and the server finds no filename and no filetype in it.
C36_ClientMetadataParsed ==
    \A k \in DOMAIN client.entries :
        LET entry == client.entries[k]
        IN  entry.location \in DOMAIN session =>
                /\ session[entry.location].filename = entry.name
                /\ session[entry.location].filetype = DeclaredType(entry)
                /\ \A f \in RecordsOf(entry.location) :
                      /\ fileMetadata[f].originalName = entry.name
                      /\ fileMetadata[f].mimetype = DeclaredType(entry)

\* C35: in an upload of a non-empty file by the bundled client with nothing
\* failing, the client's offset is the offset of the server's session
\* whenever the client is about to send a PATCH, no PATCH is answered 409,
\* the chunk loop comes to its end, and an entry is set to success only
\* when its session is out of the map and has been made into exactly one
\* record.
C35_ClientUploadCompletes ==
    /\ [](/\ (client.pc = "loop" /\ client.offset < Current.size) =>
                /\ client.location \in uploads
                /\ session[client.location].offset = client.offset
          /\ resp.status # 409
          /\ \A k \in DOMAIN client.entries :
                client.entries[k].status = "success" =>
                    /\ client.entries[k].location \notin uploads
                    /\ Cardinality(RecordsOf(client.entries[k].location)) = 1)
    /\ \A k \in 1..MaxFiles :
          (/\ k \in DOMAIN client.entries
           /\ client.entries[k].location \in uploads)
              ~> (/\ k \in DOMAIN client.entries
                  /\ client.entries[k].status = "success")

\* The client has sent a file of 2 bytes in two chunks: the entry is set to
\* success, and the server holds one record of it with the 2 bytes.
C35_Witness ==
    \E k \in DOMAIN client.entries :
        /\ client.entries[k].status = "success"
        /\ client.entries[k].size = 2
        /\ \E f \in RecordsOf(client.entries[k].location) :
              /\ fileMetadata[f].size = 2
              /\ DownloadResponse(f).status = 200
              /\ DownloadResponse(f).headers.Body = FileBytes(0, 2)

\* C37: when a PATCH of an upload in progress fails or is interrupted, the
\* bundled client goes on with the same upload from the server's offset
\* until the file is complete: an entry that is in error while its session
\* is active comes to success.  Fails: the catch sets the entry to error and
\* ends uploadFile, and Retry, Resume and Pause do nothing.
C37_ClientResumes ==
    \A k \in 1..MaxFiles :
        (/\ k \in DOMAIN client.entries
         /\ client.entries[k].status = "error"
         /\ client.entries[k].location \in uploads)
            ~> (/\ k \in DOMAIN client.entries
                /\ client.entries[k].status = "success")

\* The record onUploadFinish has just saved is the one of the newest id.
TusSaved(fileId) ==
    /\ fileId \in DOMAIN metadataFile'
    /\ fileId \notin DOMAIN metadataFile

(***************************************************************************)
(* C38: in the tus-node-server variant, once an upload has finished and    *)
(* its record is saved, the list of the running process has the record and *)
(* the download of its id finds the file.  Fails: onUploadFinish sets the  *)
(* record in a Map it has just loaded and saves that one; the Map the      *)
(* handlers read is the one loaded at startup.                             *)
(***************************************************************************)
C38_FinishedIsListed ==
    [][\A fileId \in 1..MaxTusUploads :
          (/\ \E uploadId \in TusUploadIds, metadata \in TusUploadMetadata,
                 n \in 1..MaxUploadLength, now \in Clock,
                 statFails \in BOOLEAN, readFails \in BOOLEAN, saveFails \in BOOLEAN :
                 OnUploadFinish(uploadId, metadata, n, now, statFails, readFails, saveFails)
           /\ TusSaved(fileId))
              => /\ fileId \in Listed(TusListResponse')
                 /\ TusDownloadResponse(fileId)'.status = 200]_vars

(***************************************************************************)
(* C39: in the tus-node-server variant, a DELETE that answers success      *)
(* takes the record of its id alone out of the persisted document: every   *)
(* other record of the document is in it afterwards, as it was.  Fails:    *)
(* the delete saves the Map of the process, which has none of the records  *)
(* onUploadFinish has written to the document since startup.               *)
(***************************************************************************)
C39_DeleteKeepsOthers ==
    [][\A fileId \in 1..MaxTusUploads, unlinkFails \in BOOLEAN, saveFails \in BOOLEAN :
          (TusDeleteFile(fileId, unlinkFails, saveFails) /\ resp'.status = 200)
              => \A k \in DOMAIN metadataFile \ {fileId} :
                    /\ k \in DOMAIN metadataFile'
                    /\ metadataFile'[k] = metadataFile[k]]_vars

====
